---- MODULE Spec2Model ----
(***************************************************************************)
(* Model of src/daft-functions/src/geo/utils.rs: the geometry column       *)
(* codec (decode_series / encode_series), the variable-length builder GH,  *)
(* the GeometryArrayIter and the unary / binary operation dispatchers.     *)
(*                                                                         *)
(* A geometry value is a record [kind, pts]: its kind tag and the flat     *)
(* list of its coordinates.  Bytes are naturals below 256, a WKB value is  *)
(* a sequence of bytes, a WKT value is a sequence of tokens (strings).     *)
(* Column names are left out: a result takes its (left) input's name and   *)
(* nothing else depends on them.                                           *)
(***************************************************************************)
EXTENDS Integers, Sequences, FiniteSets, TLC

VARIABLES call, ret, gh, pushed, iter, log

vars == <<call, ret, gh, pushed, iter, log>>

(* Largest number of rows of an input column. *)
MaxRows == 2
(* Calls of next() made after the iterator has reached the end. *)
MaxExtraCalls == 2

---------------------------------------------------------------------------
(* Option and Result values of the Rust code. *)

None == [some |-> FALSE]
Some(x) == [some |-> TRUE, v |-> x]

Ok(x) == [ok |-> TRUE, v |-> x]
Err(e) == [ok |-> FALSE, err |-> e]

(* Result::unwrap / Option::unwrap: defined on the Ok / Some case only; a  *)
(* use on the other case is a panic and stops the evaluation.              *)
unwrap(r) == r.v

Last(s) == s[Len(s)]

---------------------------------------------------------------------------
(* The GeoOperation tags. *)

GeoOperation == {"Area", "ConvexHull", "Distance", "Intersects", "Intersection", "Contains"}

---------------------------------------------------------------------------
(* The spatial encoding library as the code calls it.                      *)
(* WKB: <<byte order>> \o u16(type code) \o body, every number written in  *)
(* the byte order the first byte announces (1 little endian, 0 big         *)
(* endian).  A point's body is its coordinate; any other kind's body is    *)
(* the number of coordinates followed by the coordinates.                  *)

Kinds == {"Point", "LineString", "Polygon", "MultiPolygon"}

TypeCode(kind) ==
    CASE kind = "Point" -> 1
      [] kind = "LineString" -> 2
      [] kind = "Polygon" -> 3
      [] kind = "MultiPolygon" -> 6

KindOfCode(code) == CHOOSE k \in Kinds : TypeCode(k) = code

U16(bo, n) == IF bo = 1 THEN <<n % 256, n \div 256>> ELSE <<n \div 256, n % 256>>

RdU16(b, bo, at) == IF bo = 1 THEN b[at] + 256 * b[at + 1] ELSE 256 * b[at] + b[at + 1]

RECURSIVE U16s(_, _)
U16s(bo, ns) == IF ns = <<>> THEN <<>> ELSE U16(bo, ns[1]) \o U16s(bo, Tail(ns))

(* The writer, in a given byte order. *)
WkbBytes(geo, bo) ==
    <<bo>> \o U16(bo, TypeCode(geo.kind)) \o
    (IF geo.kind = "Point" THEN U16(bo, geo.pts[1])
     ELSE U16(bo, Len(geo.pts)) \o U16s(bo, geo.pts))

Geometry_to_wkb_DropsLastCoord(geo) ==
    IF geo.kind = "Point" \/ geo.pts = <<>> THEN WkbBytes(geo, 1)
    ELSE WkbBytes([geo EXCEPT !.pts = SubSeq(@, 1, Len(@) - 1)], 1)

(* geo.to_wkb(CoordDimensions::xy()): little endian, Ok on every geometry. *)
Geometry_to_wkb(geo) == WkbBytes(geo, 1)

(* wkb::Wkb(bytes).to_geo(): reads from the front of the buffer, accepts   *)
(* both byte orders, fails on a bad byte order mark, an unknown type code  *)
(* or a buffer that ends early; bytes after the value are not read.        *)
Wkb_to_geo(b) ==
    IF Len(b) < 5 \/ b[1] \notin {0, 1} THEN Err("GeozeroError")
    ELSE LET bo == b[1]
             code == RdU16(b, bo, 2)
             n == RdU16(b, bo, 4)
         IN  IF code \notin {TypeCode(k) : k \in Kinds} THEN Err("GeozeroError")
             ELSE IF code = 1 THEN Ok([kind |-> "Point", pts |-> <<n>>])
             ELSE IF Len(b) < 5 + 2 * n THEN Err("GeozeroError")
             ELSE Ok([kind |-> KindOfCode(code),
                      pts |-> [i \in 1..n |-> RdU16(b, bo, 4 + 2 * i)]])

(* WKT: the kind's keyword followed by one token per coordinate.  The      *)
(* reader takes the keyword in either case.                                *)

Digits == <<"0", "1", "2", "3", "4", "5", "6", "7", "8", "9">>

Fmt(n) == Digits[n + 1]

IsNum(t) == \E i \in 1..Len(Digits) : Digits[i] = t

Parse(t) == (CHOOSE i \in 1..Len(Digits) : Digits[i] = t) - 1

Keyword(kind) ==
    CASE kind = "Point" -> "POINT"
      [] kind = "LineString" -> "LINESTRING"
      [] kind = "Polygon" -> "POLYGON"
      [] kind = "MultiPolygon" -> "MULTIPOLYGON"

LowerKeyword(kind) ==
    CASE kind = "Point" -> "point"
      [] kind = "LineString" -> "linestring"
      [] kind = "Polygon" -> "polygon"
      [] kind = "MultiPolygon" -> "multipolygon"

(* g.to_wkt(): upper-case keyword, Ok on every geometry. *)
Geometry_to_wkt(geo) == <<Keyword(geo.kind)>> \o [i \in 1..Len(geo.pts) |-> Fmt(geo.pts[i])]

(* wkt::Wkt(text).to_geo() *)
Wkt_to_geo(t) ==
    IF t = <<>> \/ ~\E k \in Kinds : t[1] \in {Keyword(k), LowerKeyword(k)}
    THEN Err("GeozeroError")
    ELSE LET kind == CHOOSE k \in Kinds : t[1] \in {Keyword(k), LowerKeyword(k)}
             body == Tail(t)
         IN  IF \E i \in 1..Len(body) : ~IsNum(body[i]) THEN Err("GeozeroError")
             ELSE IF kind = "Point" /\ Len(body) # 1 THEN Err("GeozeroError")
             ELSE Ok([kind |-> kind, pts |-> [i \in 1..Len(body) |-> Parse(body[i])]])

---------------------------------------------------------------------------
(* struct GH: the builder. *)

GH_new(capacity) == [geo_vec |-> <<>>, offsets |-> <<0>>, validity |-> <<>>]

GH_push(g, geo) ==
    LET geo_bytes == unwrap(Ok(Geometry_to_wkb(geo)))
    IN  [geo_vec |-> g.geo_vec \o geo_bytes,
         offsets |-> Append(g.offsets, Last(g.offsets) + Len(geo_bytes)),
         validity |-> Append(g.validity, TRUE)]

GH_null_MarksValid(g) ==
    [g EXCEPT !.offsets = Append(@, Last(@)), !.validity = Append(@, TRUE)]

GH_null(g) ==
    [g EXCEPT !.offsets = Append(@, Last(@)), !.validity = Append(@, FALSE)]

(* OffsetsBuffer::try_from fails unless the offsets start the buffer and   *)
(* never decrease; the rest wraps the three buffers into the column.       *)
gh_to(g) ==
    IF \E i \in 1..(Len(g.offsets) - 1) : g.offsets[i] > g.offsets[i + 1]
    THEN Err([variant |-> "ArrowError", text |-> "offsets", arg |-> ""])
    ELSE Ok([dtype |-> "Geometry", data |-> g.geo_vec,
             offsets |-> g.offsets, validity |-> g.validity])

GH_into_series(g) == gh_to(g)

---------------------------------------------------------------------------
(* GeometryArrayIter. *)

GeometryArrayIter_new(physical) == [cursor |-> 0, physical |-> physical]

(* physical.len(): the number of rows. *)
ColLen(physical) == Len(physical.validity)

(* physical.physical.get(idx), idx counted from 0: the row's byte slice,   *)
(* or None for an invalid row.                                             *)
ColGet(physical, idx) ==
    IF physical.validity[idx + 1]
    THEN Some(SubSeq(physical.data, physical.offsets[idx + 1] + 1, physical.offsets[idx + 2]))
    ELSE None

next_RestartsAtEnd(it) ==
    IF it.cursor >= ColLen(it.physical)
    THEN [it |-> [it EXCEPT !.cursor = 0], item |-> None]
    ELSE LET x == ColGet(it.physical, it.cursor)
         IN  [it |-> [it EXCEPT !.cursor = @ + 1],
              item |-> IF x.some THEN Some(Some(unwrap(Wkb_to_geo(x.v)))) ELSE Some(None)]

(* Iterator::next: the iterator after the call and the item returned       *)
(* (None: exhausted; Some(None): a null row; Some(Some(g)): a value).      *)
next(it) ==
    IF it.cursor >= ColLen(it.physical) THEN [it |-> it, item |-> None]
    ELSE LET x == ColGet(it.physical, it.cursor)
         IN  [it |-> [it EXCEPT !.cursor = @ + 1],
              item |-> IF x.some THEN Some(Some(unwrap(Wkb_to_geo(x.v)))) ELSE Some(None)]

(* `for g in GeometryArrayIter::new(geo)`: the items of a full pass. *)
RECURSIVE Drain(_)
Drain(it) ==
    LET n == next(it)
    IN  IF ~n.item.some THEN <<>> ELSE <<n.item.v>> \o Drain(n.it)

RECURSIVE Zip_PadsShorter(_, _)
Zip_PadsShorter(a, b) ==
    LET x == next(a)
        y == next(b)
    IN  IF ~x.item.some /\ ~y.item.some THEN <<>>
        ELSE <<<<IF x.item.some THEN x.item.v ELSE None,
                 IF y.item.some THEN y.item.v ELSE None>>>> \o Zip_PadsShorter(x.it, y.it)

(* a.zip(b): pairs until either side is exhausted; the left side is asked  *)
(* first.                                                                  *)
RECURSIVE Zip(_, _)
Zip(a, b) ==
    LET x == next(a)
    IN  IF ~x.item.some THEN <<>>
        ELSE LET y == next(b)
             IN  IF ~y.item.some THEN <<>>
                 ELSE <<<<x.item.v, y.item.v>>>> \o Zip(x.it, y.it)

---------------------------------------------------------------------------
(* DaftError values: the variant, the message text and what the message    *)
(* is formatted with.                                                      *)

DaftError(variant, text, arg) == [variant |-> variant, text |-> text, arg |-> arg]

(* The rows of a loop pushed into the builder one after the other: a       *)
(* Some(geo) is pushed, a None becomes a null row.                         *)
RECURSIVE GH_fill(_, _)
GH_fill(g, items) ==
    IF items = <<>> THEN g
    ELSE GH_fill(IF items[1].some THEN GH_push(g, items[1].v) ELSE GH_null(g), Tail(items))

---------------------------------------------------------------------------
(* decode_series *)

decode_row_NeverRaises(dtype, x, raise_error_on_failure) ==
    LET r == IF dtype = "Binary" THEN Wkb_to_geo(x) ELSE Wkt_to_geo(x)
    IN  IF r.ok THEN Ok(Some(r.v)) ELSE Ok(None)

(* One present row of the loop: Ok(Some(geo)) is pushed, Ok(None) becomes  *)
(* a null row, Err(e) is returned from decode_series.                      *)
decode_row(dtype, x, raise_error_on_failure) ==
    LET r == IF dtype = "Binary" THEN Wkb_to_geo(x) ELSE Wkt_to_geo(x)
    IN  IF r.ok THEN Ok(Some(r.v))
        ELSE IF raise_error_on_failure
             THEN Err(IF dtype = "Binary"
                      THEN DaftError("ValueError", "Could not decode WKB", <<>>)
                      ELSE DaftError("ValueError", "Could not decode WKT text", x))
             ELSE Ok(None)

(* The loop over the rows of the arrow array, from row i on. *)
RECURSIVE decode_loop(_, _, _, _, _)
decode_loop(dtype, cells, i, g, raise_error_on_failure) ==
    IF i > Len(cells) THEN Ok(g)
    ELSE IF cells[i].some
         THEN LET r == decode_row(dtype, cells[i].v, raise_error_on_failure)
              IN  IF ~r.ok THEN r
                  ELSE decode_loop(dtype, cells, i + 1,
                                   IF r.v.some THEN GH_push(g, r.v.v) ELSE GH_null(g),
                                   raise_error_on_failure)
         ELSE decode_loop(dtype, cells, i + 1, GH_null(g), raise_error_on_failure)

decode_series_AcceptsAnyType(s, raise_error_on_failure) ==
    IF s.dtype \in {"Binary", "Utf8"}
    THEN LET g == decode_loop(s.dtype, s.values, 1, GH_new(Len(s.values)),
                              raise_error_on_failure)
         IN  IF g.ok THEN GH_into_series(g.v) ELSE g
    ELSE GH_into_series(GH_new(0))

decode_series(s, raise_error_on_failure) ==
    IF s.dtype \in {"Binary", "Utf8"}
    THEN LET g == decode_loop(s.dtype, s.values, 1, GH_new(Len(s.values)),
                              raise_error_on_failure)
         IN  IF g.ok THEN GH_into_series(g.v) ELSE g
    ELSE Err(DaftError("TypeError",
                       "GeoDecode can only decode Binary or Utf8 arrays, got", s.dtype))

---------------------------------------------------------------------------
(* encode_series *)

to_wkt_SkipsNulls(s) ==
    LET items == SelectSeq(Drain(GeometryArrayIter_new(s)), LAMBDA g : g.some)
    IN  Ok([dtype |-> "Utf8",
            values |-> [i \in 1..Len(items) |-> Some(unwrap(Ok(Geometry_to_wkt(items[i].v))))]])

to_wkt(s) ==
    LET items == Drain(GeometryArrayIter_new(s))
    IN  Ok([dtype |-> "Utf8",
            values |-> [i \in 1..Len(items) |->
                          IF items[i].some
                          THEN Some(unwrap(Ok(Geometry_to_wkt(items[i].v))))
                          ELSE None]])

to_wkb(s) ==
    LET items == Drain(GeometryArrayIter_new(s))
    IN  Ok([dtype |-> "Binary",
            values |-> [i \in 1..Len(items) |->
                          IF items[i].some
                          THEN Some(unwrap(Ok(Geometry_to_wkb(items[i].v))))
                          ELSE None]])

encode_series(s, text) == IF text THEN to_wkt(s) ELSE to_wkb(s)

---------------------------------------------------------------------------
(* The geometry algorithms the dispatchers hand to the templates.  They    *)
(* are functions of the geo crate; here each is a total, deterministic     *)
(* function of the operands' kinds and coordinates.                        *)

RECURSIVE SumSeq(_)
SumSeq(s) == IF s = <<>> THEN 0 ELSE s[1] + SumSeq(Tail(s))

Coords(g) == {g.pts[i] : i \in 1..Len(g.pts)}

unsigned_area(g) == IF g.kind \in {"Polygon", "MultiPolygon"} THEN SumSeq(g.pts) ELSE 0

convex_hull(g) == [kind |-> "Polygon", pts |-> g.pts]

intersects(l, r) == Coords(l) \cap Coords(r) # {}

contains(l, r) == Coords(r) # {} /\ Coords(r) \subseteq Coords(l)

euclidean_distance(l, r) == IF intersects(l, r) THEN 0 ELSE 1

(* BooleanOps::intersection of two (multi-)polygons: a multi-polygon. *)
intersection(l, r) ==
    [kind |-> "MultiPolygon", pts |-> SelectSeq(l.pts, LAMBDA c : c \in Coords(r))]


(* A closure of the dispatchers applied to its operands: op_fn names the   *)
(* closure handed to the template.                                         *)
apply1(op_fn, g) ==
    CASE op_fn = "unsigned_area" -> unsigned_area(g)
      [] op_fn = "convex_hull" -> convex_hull(g)

intersection_op_AnyPair(l, r) == Some(intersection(l, r))

(* The closure handed to geo_binary_to_geo for Intersection. *)
intersection_op(l, r) ==
    CASE l.kind = "Polygon" /\ r.kind = "Polygon" -> Some(intersection(l, r))
      [] l.kind = "MultiPolygon" /\ r.kind = "MultiPolygon" -> Some(intersection(l, r))
      [] OTHER -> None

apply2(op_fn, l, r) ==
    CASE op_fn = "euclidean_distance" -> euclidean_distance(l, r)
      [] op_fn = "intersects" -> intersects(l, r)
      [] op_fn = "contains" -> contains(l, r)
      [] op_fn = "intersection" -> intersection_op(l, r)

---------------------------------------------------------------------------
(* The execution templates. *)

geo_unary_to_scalar_NullAsZero(s, op_fn) ==
    LET items == Drain(GeometryArrayIter_new(s))
    IN  Ok([dtype |-> "Float64",
            values |-> [i \in 1..Len(items) |->
                          IF items[i].some THEN Some(apply1(op_fn, items[i].v)) ELSE Some(0)]])

geo_unary_to_scalar(s, op_fn) ==
    LET items == Drain(GeometryArrayIter_new(s))
    IN  Ok([dtype |-> "Float64",
            values |-> [i \in 1..Len(items) |->
                          IF items[i].some THEN Some(apply1(op_fn, items[i].v)) ELSE None]])

geo_unary_to_geo(s, op_fn) ==
    LET items == Drain(GeometryArrayIter_new(s))
    IN  GH_into_series(GH_fill(GH_new(ColLen(s)),
            [i \in 1..Len(items) |->
               IF items[i].some THEN Some(apply1(op_fn, items[i].v)) ELSE None]))

geo_binary_to_scalar(lhs, rhs, op_fn) ==
    LET pairs == Zip(GeometryArrayIter_new(lhs), GeometryArrayIter_new(rhs))
    IN  Ok([dtype |-> "Float64",
            values |-> [i \in 1..Len(pairs) |->
                          IF pairs[i][1].some /\ pairs[i][2].some
                          THEN Some(apply2(op_fn, pairs[i][1].v, pairs[i][2].v))
                          ELSE None]])

geo_binary_to_bool(lhs, rhs, op_fn) ==
    LET pairs == Zip(GeometryArrayIter_new(lhs), GeometryArrayIter_new(rhs))
    IN  Ok([dtype |-> "Boolean",
            values |-> [i \in 1..Len(pairs) |->
                          IF pairs[i][1].some /\ pairs[i][2].some
                          THEN Some(apply2(op_fn, pairs[i][1].v, pairs[i][2].v))
                          ELSE None]])

geo_binary_to_geo(lhs, rhs, op_fn) ==
    LET pairs == Zip(GeometryArrayIter_new(lhs), GeometryArrayIter_new(rhs))
    IN  GH_into_series(GH_fill(GH_new(ColLen(lhs)),
            [i \in 1..Len(pairs) |->
               IF pairs[i][1].some /\ pairs[i][2].some
               THEN apply2(op_fn, pairs[i][1].v, pairs[i][2].v)
               ELSE None]))

---------------------------------------------------------------------------
(* The dispatchers. *)

unsupported_op(op) == Err(DaftError("ValueError", "unsupported op", op))

geo_unary_dispatch_RoutesDistance(s, op) ==
    CASE op \in {"Area", "Distance"} -> geo_unary_to_scalar(s, "unsigned_area")
      [] op = "ConvexHull" -> geo_unary_to_geo(s, "convex_hull")
      [] OTHER -> unsupported_op(op)

geo_unary_dispatch(s, op) ==
    CASE op = "Area" -> geo_unary_to_scalar(s, "unsigned_area")
      [] op = "ConvexHull" -> geo_unary_to_geo(s, "convex_hull")
      [] OTHER -> unsupported_op(op)

geo_binary_dispatch(lhs, rhs, op) ==
    CASE op = "Distance" -> geo_binary_to_scalar(lhs, rhs, "euclidean_distance")
      [] op = "Intersects" -> geo_binary_to_bool(lhs, rhs, "intersects")
      [] op = "Contains" -> geo_binary_to_bool(lhs, rhs, "contains")
      [] op = "Intersection" -> geo_binary_to_geo(lhs, rhs, "intersection")
      [] OTHER -> unsupported_op(op)

---------------------------------------------------------------------------
(* The inputs the operations are applied to. *)

Geoms ==
    { [kind |-> "Point", pts |-> <<1>>],
      [kind |-> "LineString", pts |-> <<>>],
      [kind |-> "Polygon", pts |-> <<1, 2>>],
      [kind |-> "MultiPolygon", pts |-> <<2>>] }

SeqsUpTo(S, n) == UNION {[1..k -> S] : k \in 0..n}

(* The rows of a geometry column, and the column the builder makes of      *)
(* them.                                                                   *)
GeoRows == SeqsUpTo({None} \cup {Some(g) : g \in Geoms}, MaxRows)

GeoColumn(rows) == unwrap(GH_into_series(GH_fill(GH_new(Len(rows)), rows)))

(* Binary cells: null, every geometry written in either byte order, a     *)
(* value followed by a stray byte, and malformed values (empty, bad byte   *)
(* order mark, unknown type code, truncated body).                         *)
WkbCells ==
    {None} \cup {Some(WkbBytes(g, bo)) : g \in Geoms, bo \in {0, 1}}
    \cup {Some(WkbBytes([kind |-> "Point", pts |-> <<1>>], 1) \o <<7>>)}
    \cup {Some(<<>>), Some(<<2, 1, 0, 1, 0>>), Some(<<1, 9, 0, 0, 0>>),
          Some(<<1, 3, 0, 2, 0, 1, 0>>)}

(* Text cells: null, every geometry with its keyword in either case, and   *)
(* malformed values.                                                       *)
WktCells ==
    {None} \cup {Some(Geometry_to_wkt(g)) : g \in Geoms}
    \cup {Some(<<LowerKeyword(g.kind)>> \o Tail(Geometry_to_wkt(g))) : g \in Geoms}
    \cup {Some(<<>>), Some(<<"CIRCLE", "1">>), Some(<<"POINT">>), Some(<<"POLYGON", "x">>)}

BinaryColumns == {[dtype |-> "Binary", values |-> v] : v \in SeqsUpTo(WkbCells, MaxRows)}

Utf8Columns == {[dtype |-> "Utf8", values |-> v] : v \in SeqsUpTo(WktCells, MaxRows)}

(* Columns of the types decode_series does not take. *)
OtherColumns ==
    {[dtype |-> t, values |-> v] :
        t \in {"Int64", "Float64", "Boolean"},
        v \in SeqsUpTo({None, Some(0), Some(1)}, MaxRows)}

WellFormed(s) ==
    \A i \in 1..Len(s.values) :
        s.values[i].some => Wkb_to_geo(s.values[i].v).ok

---------------------------------------------------------------------------
(* The calls.  A behaviour of Spec makes one call of one of the public     *)
(* functions: call records the function and its arguments, ret what it     *)
(* returned.                                                               *)

Idle == [fn |-> "idle"]

InitObjects ==
    /\ gh = Some(GH_new(0))
    /\ pushed = <<>>
    /\ iter = None
    /\ log = <<>>

Init ==
    /\ call = Idle
    /\ ret = None
    /\ InitObjects

DecodeBinary ==
    /\ call = Idle
    /\ \E s \in BinaryColumns, raise \in BOOLEAN :
         /\ call' = [fn |-> "decode_series", s |-> s, raise |-> raise]
         /\ ret' = decode_series(s, raise)
    /\ UNCHANGED <<gh, pushed, iter, log>>

DecodeText ==
    /\ call = Idle
    /\ \E s \in Utf8Columns, raise \in BOOLEAN :
         /\ call' = [fn |-> "decode_series", s |-> s, raise |-> raise]
         /\ ret' = decode_series(s, raise)
    /\ UNCHANGED <<gh, pushed, iter, log>>

DecodeOther ==
    /\ call = Idle
    /\ \E s \in OtherColumns \cup {GeoColumn(rows) : rows \in GeoRows}, raise \in BOOLEAN :
         /\ call' = [fn |-> "decode_series", s |-> s, raise |-> raise]
         /\ ret' = decode_series(s, raise)
    /\ UNCHANGED <<gh, pushed, iter, log>>

Encode ==
    /\ call = Idle
    /\ \E rows \in GeoRows, text \in BOOLEAN :
         /\ call' = [fn |-> "encode_series", rows |-> rows, s |-> GeoColumn(rows), text |-> text]
         /\ ret' = encode_series(GeoColumn(rows), text)
    /\ UNCHANGED <<gh, pushed, iter, log>>

UnaryDispatch ==
    /\ call = Idle
    /\ \E rows \in GeoRows, op \in GeoOperation :
         /\ call' = [fn |-> "geo_unary_dispatch", rows |-> rows, s |-> GeoColumn(rows), op |-> op]
         /\ ret' = geo_unary_dispatch(GeoColumn(rows), op)
    /\ UNCHANGED <<gh, pushed, iter, log>>

BinaryDispatch ==
    /\ call = Idle
    /\ \E lrows \in GeoRows, rrows \in GeoRows, op \in GeoOperation :
         /\ call' = [fn |-> "geo_binary_dispatch", lrows |-> lrows, rrows |-> rrows,
                     lhs |-> GeoColumn(lrows), rhs |-> GeoColumn(rrows), op |-> op]
         /\ ret' = geo_binary_dispatch(GeoColumn(lrows), GeoColumn(rrows), op)
    /\ UNCHANGED <<gh, pushed, iter, log>>

(* decode_series, encode_series(text = false) and decode_series again on   *)
(* a binary column: ret holds what each of the three calls returned.       *)
DecodeEncodeDecode ==
    /\ call = Idle
    /\ \E s \in BinaryColumns, raise \in BOOLEAN :
         LET first == decode_series(s, raise)
             encoded == IF first.ok THEN encode_series(first.v, FALSE) ELSE first
             second == IF encoded.ok THEN decode_series(encoded.v, raise) ELSE encoded
         IN  /\ call' = [fn |-> "decode_encode_decode", s |-> s, raise |-> raise]
             /\ ret' = [first |-> first, encoded |-> encoded, second |-> second]
    /\ UNCHANGED <<gh, pushed, iter, log>>

Next ==
    \/ DecodeBinary
    \/ DecodeText
    \/ DecodeOther
    \/ Encode
    \/ UnaryDispatch
    \/ BinaryDispatch
    \/ DecodeEncodeDecode

Spec == Init /\ [][Next]_vars

---------------------------------------------------------------------------
(* The builder and the iterator step by step.  A behaviour of SpecObj      *)
(* pushes rows into a fresh builder, finishes it into a column (which      *)
(* moves the builder away) and walks the column with iterators.  pushed    *)
(* records the rows handed to the builder, log what the current iterator's *)
(* calls of next() returned.                                               *)

PushGeoms == Geoms \cup {convex_hull(g) : g \in Geoms}

Push ==
    /\ gh.some
    /\ Len(pushed) < MaxRows
    /\ \E geo \in PushGeoms :
         /\ gh' = Some(GH_push(gh.v, geo))
         /\ pushed' = Append(pushed, Some(geo))
    /\ UNCHANGED <<call, ret, iter, log>>

Null ==
    /\ gh.some
    /\ Len(pushed) < MaxRows
    /\ gh' = Some(GH_null(gh.v))
    /\ pushed' = Append(pushed, None)
    /\ UNCHANGED <<call, ret, iter, log>>

IntoSeries ==
    /\ gh.some
    /\ ret' = GH_into_series(gh.v)
    /\ gh' = None
    /\ UNCHANGED <<call, pushed, iter, log>>

IterNew ==
    /\ ~gh.some
    /\ ret.ok
    /\ iter' = Some(GeometryArrayIter_new(ret.v))
    /\ log' = <<>>
    /\ UNCHANGED <<call, ret, gh, pushed>>

IterNext ==
    /\ iter.some
    /\ Len(log) < ColLen(iter.v.physical) + MaxExtraCalls
    /\ LET n == next(iter.v)
       IN  /\ iter' = Some(n.it)
           /\ log' = Append(log, n.item)
    /\ UNCHANGED <<call, ret, gh, pushed>>

NextObj ==
    \/ Push
    \/ Null
    \/ IntoSeries
    \/ IterNew
    \/ IterNext

SpecObj == Init /\ [][NextObj]_vars

---------------------------------------------------------------------------
(* Reading a column's rows off its buffers, for the properties below. *)

Min(a, b) == IF a <= b THEN a ELSE b

NumRows(col) == IF col.dtype = "Geometry" THEN Len(col.validity) ELSE Len(col.values)

RowIsNull(col, i) ==
    IF col.dtype = "Geometry" THEN ~col.validity[i] ELSE ~col.values[i].some

RowBytes(col, i) == SubSeq(col.data, col.offsets[i] + 1, col.offsets[i + 1])

(* The library's decoder for a raw column's type. *)
Decoded(dtype, x) == IF dtype = "Binary" THEN Wkb_to_geo(x) ELSE Wkt_to_geo(x)

Malformed(s, i) == s.values[i].some /\ ~Decoded(s.dtype, s.values[i].v).ok

IsUnsupportedOp(r, op) ==
    /\ ~r.ok
    /\ r.err = DaftError("ValueError", "unsupported op", op)

---------------------------------------------------------------------------
(* C1: null propagation.  In the column a dispatched operation returns,    *)
(* row i is null whenever an operand's row i is null (for a binary         *)
(* operation: the left or the right operand's).                            *)
C1_NullPropagation ==
    /\ (call.fn = "geo_unary_dispatch" /\ ret.ok) =>
         \A i \in 1..Len(call.rows) :
            ~call.rows[i].some => (i <= NumRows(ret.v) /\ RowIsNull(ret.v, i))
    /\ (call.fn = "geo_binary_dispatch" /\ ret.ok) =>
         \A i \in 1..Min(Len(call.lrows), Len(call.rrows)) :
            (~call.lrows[i].some \/ ~call.rrows[i].some)
               => (i <= NumRows(ret.v) /\ RowIsNull(ret.v, i))

C1_Witness ==
    /\ call.fn = "geo_binary_dispatch"
    /\ call.op = "Contains"
    /\ Len(call.lrows) = 2 /\ Len(call.rrows) = 2
    /\ ~call.lrows[1].some /\ call.rrows[1].some
    /\ call.lrows[2].some /\ call.rrows[2].some
    /\ ret.ok
    /\ RowIsNull(ret.v, 1) /\ ~RowIsNull(ret.v, 2)

(* C2: partial failure.  decode_series on a binary or text column with a   *)
(* malformed row: with raise_error_on_failure the call fails with the      *)
(* decode error and returns no column; without it the call returns a       *)
(* geometry column of the same length where every malformed row is null    *)
(* and every well-formed row holds its decoded value.                      *)
C2_PartialFailure ==
    (/\ call.fn = "decode_series"
     /\ call.s.dtype \in {"Binary", "Utf8"}
     /\ \E i \in 1..Len(call.s.values) : Malformed(call.s, i))
    => IF call.raise
       THEN /\ ~ret.ok
            /\ ret.err.variant = "ValueError"
            /\ ret.err.text = IF call.s.dtype = "Binary" THEN "Could not decode WKB"
                              ELSE "Could not decode WKT text"
       ELSE /\ ret.ok
            /\ ret.v.dtype = "Geometry"
            /\ NumRows(ret.v) = Len(call.s.values)
            /\ \A i \in 1..Len(call.s.values) :
                 /\ Malformed(call.s, i) => RowIsNull(ret.v, i)
                 /\ (call.s.values[i].some /\ ~Malformed(call.s, i)) =>
                      /\ ~RowIsNull(ret.v, i)
                      /\ Wkb_to_geo(RowBytes(ret.v, i))
                           = Ok(Decoded(call.s.dtype, call.s.values[i].v).v)

C2_Witness ==
    /\ call.fn = "decode_series"
    /\ call.s.dtype = "Utf8"
    /\ ~call.raise
    /\ Len(call.s.values) = 2
    /\ call.s.values[1].some /\ ~Malformed(call.s, 1)
    /\ Malformed(call.s, 2)
    /\ ret.ok
    /\ ~RowIsNull(ret.v, 1) /\ RowIsNull(ret.v, 2)

(* C3: a tag without a template for the arity fails with the unsupported   *)
(* operation error naming the tag: the unary dispatcher for exactly        *)
(* Distance, Intersects, Intersection and Contains, the binary one for     *)
(* exactly Area and ConvexHull; every other tag is routed to its template  *)
(* (Area, Distance: scalar; ConvexHull, Intersection: geometry;            *)
(* Intersects, Contains: boolean).                                         *)
C3_UnsupportedOperation ==
    /\ call.fn = "geo_unary_dispatch" =>
         IF call.op \in {"Distance", "Intersects", "Intersection", "Contains"}
         THEN IsUnsupportedOp(ret, call.op)
         ELSE /\ ret.ok
              /\ ret.v.dtype = IF call.op = "Area" THEN "Float64" ELSE "Geometry"
    /\ call.fn = "geo_binary_dispatch" =>
         IF call.op \in {"Area", "ConvexHull"}
         THEN IsUnsupportedOp(ret, call.op)
         ELSE /\ ret.ok
              /\ ret.v.dtype = CASE call.op = "Distance" -> "Float64"
                                 [] call.op \in {"Intersects", "Contains"} -> "Boolean"
                                 [] call.op = "Intersection" -> "Geometry"

C3_Witness ==
    /\ call.fn = "geo_unary_dispatch"
    /\ call.op = "Distance"
    /\ Len(call.rows) > 0
    /\ IsUnsupportedOp(ret, "Distance")

(* C4: Intersection never fails the call, and a row whose operands are     *)
(* both present is a geometry exactly when the two are polygons or the two *)
(* are multi-polygons; any other pair of kinds gives a null row.           *)
C4_IntersectionPairs ==
    (call.fn = "geo_binary_dispatch" /\ call.op = "Intersection") =>
       /\ ret.ok
       /\ \A i \in 1..Min(Len(call.lrows), Len(call.rrows)) :
            (call.lrows[i].some /\ call.rrows[i].some) =>
               /\ i <= NumRows(ret.v)
               /\ ~RowIsNull(ret.v, i) <=>
                    \/ call.lrows[i].v.kind = "Polygon" /\ call.rrows[i].v.kind = "Polygon"
                    \/ /\ call.lrows[i].v.kind = "MultiPolygon"
                       /\ call.rrows[i].v.kind = "MultiPolygon"

C4_Witness ==
    /\ call.fn = "geo_binary_dispatch"
    /\ call.op = "Intersection"
    /\ Len(call.lrows) = 2 /\ Len(call.rrows) = 2
    /\ call.lrows[1].some /\ call.rrows[1].some
    /\ call.lrows[1].v.kind = "Point" /\ call.rrows[1].v.kind = "Point"
    /\ call.lrows[2].some /\ call.rrows[2].some
    /\ call.lrows[2].v.kind = "Polygon" /\ call.rrows[2].v.kind = "Polygon"
    /\ ret.ok
    /\ RowIsNull(ret.v, 1) /\ ~RowIsNull(ret.v, 2)

(* C5: encode_series returns a column of the input's length, text for      *)
(* text = true and binary otherwise, whose row i is null exactly when the  *)
(* input's row i is, and otherwise holds the encoding of the input's row i.*)
C5_EncodePreservesRows ==
    call.fn = "encode_series" =>
       /\ ret.ok
       /\ ret.v.dtype = IF call.text THEN "Utf8" ELSE "Binary"
       /\ Len(ret.v.values) = Len(call.rows)
       /\ \A i \in 1..Len(call.rows) :
            /\ i <= Len(ret.v.values)
            /\ ret.v.values[i].some <=> call.rows[i].some
            /\ call.rows[i].some =>
                 ret.v.values[i] = Some(IF call.text THEN Geometry_to_wkt(call.rows[i].v)
                                        ELSE Geometry_to_wkb(call.rows[i].v))

C5_Witness ==
    /\ call.fn = "encode_series"
    /\ call.text
    /\ call.rows = <<None, Some([kind |-> "Polygon", pts |-> <<1, 2>>])>>
    /\ ret.ok
    /\ ret.v.values = <<None, Some(<<"POLYGON", "1", "2">>)>>

(* C6: round trip.  On a well-formed binary column, decoding, encoding to  *)
(* binary and decoding again all succeed, and the second decode's column   *)
(* yields row by row the geometry values (and the nulls) of the first's.   *)
C6_RoundTrip ==
    (call.fn = "decode_encode_decode" /\ WellFormed(call.s)) =>
       /\ ret.first.ok /\ ret.encoded.ok /\ ret.second.ok
       /\ ret.encoded.v.dtype = "Binary"
       /\ NumRows(ret.second.v) = NumRows(ret.first.v)
       /\ Drain(GeometryArrayIter_new(ret.second.v)) = Drain(GeometryArrayIter_new(ret.first.v))

C6_Witness ==
    /\ call.fn = "decode_encode_decode"
    /\ WellFormed(call.s)
    /\ Len(call.s.values) = 2
    /\ call.s.values[1].some /\ call.s.values[1].v[1] = 0
    /\ ~call.s.values[2].some
    /\ ret.second.ok
    /\ ret.encoded.v.values # call.s.values
    /\ Drain(GeometryArrayIter_new(ret.second.v))
         = <<Some(Wkb_to_geo(call.s.values[1].v).v), None>>

(* C7: decode_series on a column that is neither binary nor text fails     *)
(* with the type error naming the column's type, whatever the flag and the *)
(* rows.                                                                   *)
C7_DecodeTypeError ==
    (call.fn = "decode_series" /\ call.s.dtype \notin {"Binary", "Utf8"}) =>
       /\ ~ret.ok
       /\ ret.err.variant = "TypeError"
       /\ ret.err.arg = call.s.dtype

C7_Witness ==
    /\ call.fn = "decode_series"
    /\ call.s.dtype = "Geometry"
    /\ NumRows(call.s) = 2
    /\ ~call.raise
    /\ ~ret.ok
    /\ ret.err.variant = "TypeError"

---------------------------------------------------------------------------
(* The bytes a sequence of pushed rows puts in the buffer. *)
RECURSIVE BytesOf(_)
BytesOf(rows) ==
    IF rows = <<>> THEN <<>>
    ELSE (IF rows[1].some THEN Geometry_to_wkb(rows[1].v) ELSE <<>>) \o BytesOf(Tail(rows))

(* The layout of buffers b holding the rows `rows`. *)
Layout(data, offsets, validity, rows) ==
    /\ Len(offsets) = Len(rows) + 1
    /\ Len(validity) = Len(rows)
    /\ offsets[1] = 0
    /\ \A i \in 1..Len(rows) : i + 1 <= Len(offsets) => offsets[i] <= offsets[i + 1]
    /\ Last(offsets) = Len(data)
    /\ data = BytesOf(rows)
    /\ \A i \in 1..Len(rows) :
         (i + 1 <= Len(offsets) /\ i <= Len(validity)) =>
            IF rows[i].some
            THEN /\ validity[i]
                 /\ SubSeq(data, offsets[i] + 1, offsets[i + 1]) = Geometry_to_wkb(rows[i].v)
            ELSE /\ ~validity[i]
                 /\ offsets[i + 1] = offsets[i]

(* C8: builder layout.  After any pushes and nulls: the first offset is 0, *)
(* the offsets never decrease and are one more than the rows, the validity *)
(* has one entry per row, the last offset is the buffer's length, the      *)
(* buffer holds the pushed values' bytes and nothing for a null row, a     *)
(* null row is invalid with an empty slice, a valid row's slice is its     *)
(* value's encoding; the finished column has the same buffers.             *)
C8_BuilderLayout ==
    IF gh.some
    THEN Layout(gh.v.geo_vec, gh.v.offsets, gh.v.validity, pushed)
    ELSE /\ ret.ok
         /\ ret.v.dtype = "Geometry"
         /\ Layout(ret.v.data, ret.v.offsets, ret.v.validity, pushed)

C8_Witness ==
    /\ gh.some
    /\ Len(pushed) = 2
    /\ ~pushed[1].some /\ pushed[2].some
    /\ gh.v.offsets[2] = 0
    /\ gh.v.offsets[3] > 0
    /\ gh.v.validity = <<FALSE, TRUE>>

(* C9: the iterator is single-pass.  Its cursor is the number of rows      *)
(* yielded so far and never passes the row count; the k-th call of next()  *)
(* returns row k-1 of the column while k is within the row count, and      *)
(* every call after that signals exhaustion.                               *)
C9_SinglePass ==
    iter.some =>
       /\ ColLen(iter.v.physical) = Len(pushed)
       /\ iter.v.cursor <= Len(pushed)
       /\ iter.v.cursor = Min(Len(log), Len(pushed))
       /\ \A k \in 1..Len(log) :
            IF k <= Len(pushed) THEN log[k] = Some(pushed[k]) ELSE log[k] = None

C9_Witness ==
    /\ iter.some
    /\ Len(pushed) = 2
    /\ pushed[1].some /\ ~pushed[2].some
    /\ Len(log) = 4
    /\ log[2] = Some(None)
    /\ log[3] = None /\ log[4] = None
    /\ iter.v.cursor = 2

---------------------------------------------------------------------------
(* What a supported binary operation computes of two present operands. *)
BinaryValue(op, l, r) ==
    CASE op = "Distance" -> euclidean_distance(l, r)
      [] op = "Intersects" -> intersects(l, r)
      [] op = "Contains" -> contains(l, r)

(* C10: row counts.  decode_series (when it succeeds), encode_series and   *)
(* geo_unary_dispatch return as many rows as their input has; a supported  *)
(* binary operation succeeds with as many rows as the shorter operand,     *)
(* row i computed from the operands' rows i.                               *)
C10_RowCount ==
    /\ (call.fn = "decode_series" /\ ret.ok) => NumRows(ret.v) = Len(call.s.values)
    /\ call.fn = "encode_series" => (ret.ok /\ NumRows(ret.v) = Len(call.rows))
    /\ (call.fn = "geo_unary_dispatch" /\ ret.ok) => NumRows(ret.v) = Len(call.rows)
    /\ (call.fn = "geo_binary_dispatch" /\ call.op \notin {"Area", "ConvexHull"}) =>
         /\ ret.ok
         /\ NumRows(ret.v) = Min(Len(call.lrows), Len(call.rrows))
         /\ \A i \in 1..NumRows(ret.v) :
              (/\ i <= Len(call.lrows) /\ i <= Len(call.rrows)
               /\ call.lrows[i].some /\ call.rrows[i].some) =>
                 IF call.op = "Intersection"
                 THEN ~RowIsNull(ret.v, i) =>
                        RowBytes(ret.v, i)
                          = Geometry_to_wkb(intersection(call.lrows[i].v, call.rrows[i].v))
                 ELSE ret.v.values[i]
                        = Some(BinaryValue(call.op, call.lrows[i].v, call.rrows[i].v))

C10_Witness ==
    /\ call.fn = "geo_binary_dispatch"
    /\ call.op = "Distance"
    /\ Len(call.lrows) = 2 /\ Len(call.rrows) = 1
    /\ call.lrows[1].some /\ call.rrows[1].some /\ call.lrows[2].some
    /\ ret.ok
    /\ NumRows(ret.v) = 1
    /\ ret.v.values[1].some

====
